---- MODULE Spec2Model ----
(***************************************************************************)
(* The SpaceX launch dashboard (spacex_dash_app.py) as a state machine.    *)
(*                                                                         *)
(* The process starts, resolves the CSV path from the environment, reads   *)
(* and cleans the table, builds the layout, and then serves one page whose *)
(* two inputs ('site-dropdown', 'payload-slider') drive three callbacks.   *)
(* Payload masses are modelled as integers; pandas' missing value is NaN   *)
(* for the numeric columns and NaS for the text columns.  What plotly does *)
(* with a figure's data is not modelled: a figure is the data frame and    *)
(* the column mapping handed to plotly.express.                            *)
(***************************************************************************)
EXTENDS Integers, Sequences, FiniteSets

\* ------------------------------------------------------------------ bounds
MaxRows == 2

MaxRowsPie == 4

MaxRowsLoad == 3

MaxPayload == 2

\* ------------------------------------------------------- values of the data
NaN == -99

NaS == "NaN"

ALL == "ALL"

DefaultPath == "spacex_launch_dash.csv"

CustomPath == "custom.csv"

Paths == {DefaultPath, CustomPath}

\* The launch sites of the model, in the order sorted() and groupby() give.
SiteOrder == <<"A", "B">>

Sites == {SiteOrder[i] : i \in DOMAIN SiteOrder}

\* The values of 'class' in the order groupby('class') gives.
ClassOrder == <<0, 1>>

Payloads == 0..MaxPayload

SeqsUpTo(U, n) == UNION {[1..k -> U] : k \in 0..n}

\* ------------------------------------------------------------------- state
VARIABLES
    env,            \* os.environ, restricted to SPACEX_DASH_CSV: <<>> or <<path>>
    fs,             \* the paths that exist
    csv,            \* the rows of the file at CSV_PATH, as read_csv parses them
    pc,             \* "start", "failed", "loaded", "serving", "running"
    error,          \* the exception that ended the process, "" if none
    spacex_df,      \* the in-memory table
    payload_min,
    payload_max,
    launch_sites,
    dropdown_options,
    site_dropdown,              \* value of 'site-dropdown'
    payload_slider,             \* value of 'payload-slider'
    payload_range_text,         \* children of 'payload-range-text'
    success_pie_chart,          \* figure of 'success-pie-chart'
    success_payload_scatter_chart   \* figure of 'success-payload-scatter-chart'

vars == <<env, fs, csv, pc, error, spacex_df, payload_min, payload_max,
          launch_sites, dropdown_options, site_dropdown, payload_slider,
          payload_range_text, success_pie_chart, success_payload_scatter_chart>>

data == <<spacex_df, payload_min, payload_max, launch_sites, dropdown_options>>

views == <<payload_range_text, success_pie_chart, success_payload_scatter_chart>>

NoFig == [title |-> <<>>, data |-> <<>>]

\* ------------------------------------------------------------ data loading
\* The variable is ignored.
CSV_PATH_fixed == DefaultPath

CSV_PATH == IF env = <<>> THEN DefaultPath ELSE env[1]

IsNA(r, col) ==
    CASE col = "Launch Site" -> r.site = NaS
      [] col = "class" -> r.class = NaN
      [] col = "Payload Mass (kg)" -> r.payload = NaN
      [] col = "Booster Version Category" -> r.booster = NaS

\* dropna() without subset: a row missing any column is dropped.
dropna_any(df, subset) ==
    SelectSeq(df, LAMBDA r :
        \A col \in {"Launch Site", "class", "Payload Mass (kg)",
                     "Booster Version Category"} : ~IsNA(r, col))

dropna(df, subset) == SelectSeq(df, LAMBDA r : \A col \in subset : ~IsNA(r, col))

Column(df) == {df[i].payload : i \in DOMAIN df} \ {NaN}

\* The bound is taken from the frame as read, before cleanup.
SeriesMin_raw(df) ==
    IF Column(csv) = {} THEN NaN
    ELSE CHOOSE m \in Column(csv) : \A v \in Column(csv) : m <= v

SeriesMin(df) ==
    IF Column(df) = {} THEN NaN
    ELSE CHOOSE m \in Column(df) : \A v \in Column(df) : m <= v

SeriesMax(df) ==
    IF Column(df) = {} THEN NaN
    ELSE CHOOSE m \in Column(df) : \A v \in Column(df) : m >= v

Sorted(S) == SelectSeq(SiteOrder, LAMBDA s : s \in S)

Unique(df) == {df[i].site : i \in DOMAIN df}

\* ------------------------------------------------------------ the callbacks
update_payload_label(range_vals) == <<range_vals[1], range_vals[2]>>

OutcomeLabel(c) == CASE c = 0 -> "Failure" [] c = 1 -> "Success"

GroupBySite(df) ==
    LET keys == Sorted(Unique(df))
    IN  [k \in DOMAIN keys |->
            [name |-> keys[k], value |-> Len(SelectSeq(df, LAMBDA r : r.site = keys[k]))]]

\* The filter on class == 1 is lost: every record is counted.
successes_by_site_unfiltered == GroupBySite(spacex_df)

successes_by_site == GroupBySite(SelectSeq(spacex_df, LAMBDA r : r.class = 1))

\* The filter on the selected site is lost.
site_df_unfiltered(selected_site) == spacex_df

site_df(selected_site) == SelectSeq(spacex_df, LAMBDA r : r.site = selected_site)

outcome_counts(df) ==
    LET keys == SelectSeq(ClassOrder, LAMBDA c : \E i \in DOMAIN df : df[i].class = c)
    IN  [k \in DOMAIN keys |->
            [name  |-> OutcomeLabel(keys[k]),
             value |-> Len(SelectSeq(df, LAMBDA r : r.class = keys[k]))]]

update_pie(selected_site) ==
    IF selected_site = ALL
    THEN [title |-> <<"Total Successful Launches by Site">>,
          data  |-> successes_by_site]
    ELSE [title |-> <<"Launch Outcomes for ", selected_site>>,
          data  |-> outcome_counts(site_df(selected_site))]

\* Comparisons of a float column with a float: false when either side is NaN.
Ge(a, b) == a # NaN /\ b # NaN /\ a >= b

Le(a, b) == a # NaN /\ b # NaN /\ a <= b

\* 'mask =' for 'mask &=': a selected site replaces the range filter.
Mask_site_only(r, selected_site, lo, hi) ==
    IF selected_site # ALL
    THEN r.site = selected_site
    ELSE Ge(r.payload, lo) /\ Le(r.payload, hi)

\* '>' and '<' for '>=' and '<='.
Mask_exclusive(r, selected_site, lo, hi) ==
    /\ Ge(r.payload, lo) /\ r.payload # lo
    /\ Le(r.payload, hi) /\ r.payload # hi
    /\ (selected_site # ALL => r.site = selected_site)

\* '|' for '&' between the two payload comparisons.
Mask_either(r, selected_site, lo, hi) ==
    /\ (Ge(r.payload, lo) \/ Le(r.payload, hi))
    /\ (selected_site # ALL => r.site = selected_site)

Mask(r, selected_site, lo, hi) ==
    /\ Ge(r.payload, lo)
    /\ Le(r.payload, hi)
    /\ (selected_site # ALL => r.site = selected_site)

Point(r) == [x |-> r.payload, y |-> r.class, color |-> r.booster, hover |-> r.site]

update_scatter(selected_site, payload_range) ==
    LET lo == payload_range[1]
        hi == payload_range[2]
        filtered == SelectSeq(spacex_df, LAMBDA r : Mask(r, selected_site, lo, hi))
    IN  [title |-> <<"Correlation between Payload and Success ",
                     IF selected_site = ALL THEN "(All Sites)" ELSE selected_site>>,
         data  |-> [i \in DOMAIN filtered |-> Point(filtered[i])]]

\* ----------------------------------------------------------------- actions
RaiseFileNotFound ==
    /\ pc = "start"
    /\ CSV_PATH \notin fs
    /\ pc' = "failed"
    /\ error' = "FileNotFoundError"
    /\ UNCHANGED <<env, fs, csv, data, site_dropdown, payload_slider, views>>

LoadData ==
    /\ pc = "start"
    /\ CSV_PATH \in fs
    /\ spacex_df' = dropna(csv, {"Launch Site", "class", "Payload Mass (kg)"})
    /\ pc' = "loaded"
    /\ UNCHANGED <<env, fs, csv, error, payload_min, payload_max, launch_sites,
                   dropdown_options, site_dropdown, payload_slider, views>>

BuildApp ==
    /\ pc = "loaded"
    /\ payload_min' = SeriesMin(spacex_df)
    /\ payload_max' = SeriesMax(spacex_df)
    /\ launch_sites' = Sorted(Unique(spacex_df))
    /\ dropdown_options' = <<ALL>> \o launch_sites'
    /\ site_dropdown' = ALL
    /\ payload_slider' = <<payload_min', payload_max'>>
    /\ pc' = "serving"
    /\ UNCHANGED <<env, fs, csv, error, spacex_df, views>>

\* The page is opened: every callback runs once on the layout's values.
PageLoad ==
    /\ pc = "serving"
    /\ payload_range_text' = update_payload_label(payload_slider)
    /\ success_pie_chart' = update_pie(site_dropdown)
    /\ success_payload_scatter_chart' = update_scatter(site_dropdown, payload_slider)
    /\ pc' = "running"
    /\ UNCHANGED <<env, fs, csv, error, data, site_dropdown, payload_slider>>

\* update_scatter does not list 'site-dropdown' among its inputs.
SelectSite_pie_only(s) ==
    /\ pc = "running"
    /\ site_dropdown' = s
    /\ success_pie_chart' = update_pie(s)
    /\ UNCHANGED <<env, fs, csv, pc, error, data, payload_slider, payload_range_text,
                   success_payload_scatter_chart>>

\* 'site-dropdown' changes: update_pie and update_scatter run.
SelectSite(s) ==
    /\ pc = "running"
    /\ site_dropdown' = s
    /\ success_pie_chart' = update_pie(s)
    /\ success_payload_scatter_chart' = update_scatter(s, payload_slider)
    /\ UNCHANGED <<env, fs, csv, pc, error, data, payload_slider, payload_range_text>>

\* update_scatter assigns the filtered frame to the global table.
MoveSlider_in_place(lo, hi) ==
    /\ pc = "running"
    /\ payload_slider' = <<lo, hi>>
    /\ payload_range_text' = update_payload_label(<<lo, hi>>)
    /\ spacex_df' = SelectSeq(spacex_df, LAMBDA r : Mask(r, site_dropdown, lo, hi))
    /\ success_payload_scatter_chart' = update_scatter(site_dropdown, <<lo, hi>>)
    /\ UNCHANGED <<env, fs, csv, pc, error, payload_min, payload_max, launch_sites,
                   dropdown_options, site_dropdown, success_pie_chart>>

\* 'payload-slider' changes: _update_payload_label and update_scatter run.
MoveSlider(lo, hi) ==
    /\ pc = "running"
    /\ payload_slider' = <<lo, hi>>
    /\ payload_range_text' = update_payload_label(<<lo, hi>>)
    /\ success_payload_scatter_chart' = update_scatter(site_dropdown, <<lo, hi>>)
    /\ UNCHANGED <<env, fs, csv, pc, error, data, site_dropdown, success_pie_chart>>

Next ==
    \/ RaiseFileNotFound
    \/ LoadData
    \/ BuildApp
    \/ PageLoad
    \/ \E s \in Sites \cup {ALL} : SelectSite(s)
    \/ \E lo \in Payloads, hi \in Payloads : MoveSlider(lo, hi)

\* ------------------------------------------------------ the specifications
InitWith(Configs, Files) ==
    /\ \E c \in Configs :
          /\ env = c.env
          /\ fs = c.fs
    /\ csv \in Files
    /\ (CSV_PATH \notin fs => csv = <<>>)
    /\ pc = "start"
    /\ error = ""
    /\ spacex_df = <<>>
    /\ payload_min = NaN
    /\ payload_max = NaN
    /\ launch_sites = <<>>
    /\ dropdown_options = <<>>
    /\ site_dropdown = ""
    /\ payload_slider = <<>>
    /\ payload_range_text = <<>>
    /\ success_pie_chart = NoFig
    /\ success_payload_scatter_chart = NoFig

DefaultConfigs == [env : {<<>>}, fs : {{}, {DefaultPath}}]

AllConfigs == [env : {<<>>, <<CustomPath>>}, fs : SUBSET Paths]

\* Complete rows that differ in site, outcome, payload and booster category.
ScatterRows ==
    [site : Sites, class : {1}, payload : Payloads, booster : {"FT"}]
    \cup [site : Sites, class : {0}, payload : Payloads, booster : {NaS}]

Init == InitWith(DefaultConfigs, SeqsUpTo(ScatterRows, MaxRows))

Spec == Init /\ [][Next]_vars

\* Complete rows that differ in site and outcome only.
PieRows == [site : Sites, class : {0, 1}, payload : {1}, booster : {"FT"}]

InitPie == InitWith(DefaultConfigs, SeqsUpTo(PieRows, MaxRowsPie))

SpecPie == InitPie /\ [][Next]_vars

\* Rows with missing fields and with a negative payload.
LoadRows ==
    [site : {"A"}, class : {1}, payload : {-1, 1}, booster : {"FT", NaS}]
    \cup {[site |-> NaS, class |-> 1, payload |-> -1, booster |-> "FT"],
          [site |-> "A", class |-> NaN, payload |-> -1, booster |-> "FT"],
          [site |-> "A", class |-> 1, payload |-> NaN, booster |-> "FT"]}

InitLoad == InitWith(AllConfigs, SeqsUpTo(LoadRows, MaxRowsLoad))

SpecLoad == InitLoad /\ [][Next]_vars

\* ------------------------------------------------------------- properties
Running == pc = "running"

Loaded == pc \in {"loaded", "serving", "running"}

Rows == DOMAIN spacex_df

RecordsOf(s, c) ==
    Cardinality({i \in Rows : spacex_df[i].site = s /\ spacex_df[i].class = c})

Entries(fig) == {<<fig.data[k].name, fig.data[k].value>> : k \in DOMAIN fig.data}

OutcomeName(c) == IF c = 1 THEN "Success" ELSE "Failure"

ExpectedAll == {<<s, RecordsOf(s, 1)>> : s \in {t \in Sites : RecordsOf(t, 1) > 0}}

ExpectedSite(s) ==
    {<<OutcomeName(c), RecordsOf(s, c)>> : c \in {d \in {0, 1} : RecordsOf(s, d) > 0}}

SiteOutcomes == [i \in Rows |-> <<spacex_df[i].site, spacex_df[i].class>>]

ScenarioTable == SiteOutcomes = <<(<<"A", 1>>), (<<"A", 0>>), (<<"B", 1>>), (<<"B", 1>>)>>

\* C1: once the page is rendered the pie chart shows, for ALL, exactly one
\* entry per site with a successful record, counting that site's successful
\* records (sites A,A,B,B with outcomes 1,0,1,1 give A:1, B:2), and for a
\* site exactly one entry per outcome occurring at that site, named Success
\* or Failure, counting the site's records with that outcome.
C1_PieBreakdown ==
    Running =>
        /\ Cardinality(Entries(success_pie_chart)) = Len(success_pie_chart.data)
        /\ site_dropdown = ALL => Entries(success_pie_chart) = ExpectedAll
        /\ site_dropdown # ALL => Entries(success_pie_chart) = ExpectedSite(site_dropdown)
        /\ (site_dropdown = ALL /\ ScenarioTable) =>
              success_pie_chart.data = <<[name |-> "A", value |-> 1],
                                         [name |-> "B", value |-> 2]>>

C1_Witness == Running /\ site_dropdown = ALL /\ ScenarioTable

RECURSIVE SumValues(_)
SumValues(entries) ==
    IF entries = <<>> THEN 0 ELSE Head(entries).value + SumValues(Tail(entries))

ValidSite(s) == s = ALL \/ \E i \in Rows : spacex_df[i].site = s

\* C3: for a valid selection the counts of the pie chart sum to the number
\* of records of the selected site, or for ALL to the number of successful
\* records of the table.
C3_PieTotal ==
    (Running /\ ValidSite(site_dropdown)) =>
        SumValues(success_pie_chart.data) =
            IF site_dropdown = ALL
            THEN Cardinality({i \in Rows : spacex_df[i].class = 1})
            ELSE Cardinality({i \in Rows : spacex_df[i].site = site_dropdown})

C3_Witness ==
    /\ Running
    /\ site_dropdown = "A"
    /\ RecordsOf("A", 0) > 0
    /\ RecordsOf("A", 1) > 1
    /\ RecordsOf("B", 1) > 0

InRange(i) ==
    /\ payload_slider[1] <= spacex_df[i].payload
    /\ spacex_df[i].payload <= payload_slider[2]
    /\ (site_dropdown # ALL => spacex_df[i].site = site_dropdown)

Kept == {i \in Rows : InRange(i)}

\* The k-th kept row, counting in table order.
KeptAt(k) == CHOOSE i \in Kept : Cardinality({j \in Kept : j <= i}) = k

Shows(p, i) ==
    /\ p.x = spacex_df[i].payload
    /\ p.y = spacex_df[i].class
    /\ p.color = spacex_df[i].booster

\* C2: the scatter chart holds exactly the records whose payload lies in
\* [lo, hi] (bounds included) and whose site is the selected one unless ALL
\* is selected, each once, in table order, with payload, outcome and booster
\* category as in the table.
C2_ScatterFilter ==
    Running =>
        /\ Len(success_payload_scatter_chart.data) = Cardinality(Kept)
        /\ \A k \in DOMAIN success_payload_scatter_chart.data :
              Shows(success_payload_scatter_chart.data[k], KeptAt(k))

C2_Witness ==
    /\ Running
    /\ site_dropdown = "B"
    /\ Len(spacex_df) = 2
    /\ spacex_df[1] # spacex_df[2]
    /\ Cardinality(Kept) = 1
    /\ \E i \in Rows : spacex_df[i].site = "B" /\ ~InRange(i)
    /\ \E i \in Rows : spacex_df[i].payload = payload_slider[1] /\ InRange(i)

\* C4: with ALL selected and the slider on [payload_min, payload_max] the
\* scatter chart holds every record of the table, in order and unchanged.
C4_FullRange ==
    (Running /\ site_dropdown = ALL /\ payload_slider = <<payload_min, payload_max>>) =>
        /\ DOMAIN success_payload_scatter_chart.data = Rows
        /\ \A i \in Rows : Shows(success_payload_scatter_chart.data[i], i)

C4_Witness ==
    /\ Running
    /\ site_dropdown = ALL
    /\ payload_slider = <<payload_min, payload_max>>
    /\ Len(spacex_df) >= 2
    /\ payload_min < payload_max
    /\ payload_range_text = <<payload_min, payload_max>>

NoPayloadInRange ==
    \A i \in Rows :
        ~(payload_slider[1] <= spacex_df[i].payload /\ spacex_df[i].payload <= payload_slider[2])

\* C5: when the selected range holds no payload of the table the scatter
\* chart is a figure without points, and no error ends the process.
C5_EmptyRange ==
    (Running /\ NoPayloadInRange) =>
        /\ success_payload_scatter_chart.data = <<>>
        /\ success_payload_scatter_chart.title # <<>>
        /\ error = ""

C5_Witness ==
    /\ Running
    /\ payload_slider = <<0, 0>>
    /\ spacex_df # <<>>
    /\ \A i \in Rows : spacex_df[i].payload > 0
    /\ success_payload_scatter_chart.data = <<>>

\* C6: whatever the history of input changes, the three outputs shown are
\* the callbacks' results on the current inputs and the loaded table, and a
\* step that leaves both inputs as they were leaves the outputs as they were.
C6_PureViews ==
    /\ [](Running =>
            /\ success_pie_chart = update_pie(site_dropdown)
            /\ success_payload_scatter_chart =
                   update_scatter(site_dropdown, payload_slider)
            /\ payload_range_text = update_payload_label(payload_slider))
    /\ [][(Running /\ site_dropdown' = site_dropdown
                   /\ payload_slider' = payload_slider) => UNCHANGED views]_vars

C6_Witness ==
    /\ Running
    /\ site_dropdown = "A"
    /\ payload_slider = <<1, 1>>
    /\ success_payload_scatter_chart.data # <<>>
    /\ Len(success_pie_chart.data) = 2

\* C7: no step taken once the layout is built (page load, site change,
\* slider change) changes the table, the payload bounds or the site options.
C7_TableFrozen ==
    [][(pc = "serving" \/ pc = "running") => UNCHANGED data]_vars

C7_Witness ==
    /\ Running
    /\ spacex_df # <<>>
    /\ payload_slider # <<payload_min, payload_max>>
    /\ Len(success_payload_scatter_chart.data) < Len(spacex_df)
    /\ site_dropdown # ALL

\* The file the process is asked to read.
InputFile == IF env # <<>> THEN env[1] ELSE DefaultPath

\* C8: when the input file does not exist the process ends with
\* FileNotFoundError before anything is built: no table, no options, no
\* input values, no view; and a failed process takes no further step.
C8_MissingFile ==
    /\ [](InputFile \notin fs =>
            /\ pc \in {"start", "failed"}
            /\ pc = "failed" <=> error = "FileNotFoundError"
            /\ spacex_df = <<>>
            /\ dropdown_options = <<>>
            /\ site_dropdown = ""
            /\ payload_slider = <<>>
            /\ payload_range_text = <<>>
            /\ success_pie_chart = NoFig
            /\ success_payload_scatter_chart = NoFig)
    /\ [][pc # "failed"]_vars

C8_Witness == pc = "failed" /\ env = <<CustomPath>> /\ fs = {DefaultPath}

Complete(r) == r.site # NaS /\ r.class # NaN /\ r.payload # NaN

Survivors == {i \in DOMAIN csv : Complete(csv[i])}

\* The k-th complete source row, counting in file order.
SurvivorAt(k) == CHOOSE i \in Survivors : Cardinality({j \in Survivors : j <= i}) = k

\* C9: the table holds exactly the source rows that have a site, an outcome
\* and a payload, in file order and as read, so no record of the table
\* misses one of the three; a missing booster category drops no row.
C9_NoMissing ==
    Loaded =>
        /\ \A i \in Rows : Complete(spacex_df[i])
        /\ Len(spacex_df) = Cardinality(Survivors)
        /\ \A k \in Rows : spacex_df[k] = csv[SurvivorAt(k)]

C9_Witness ==
    /\ Loaded
    /\ Len(csv) = 3
    /\ csv[1].booster = NaS /\ Complete(csv[1])
    /\ ~Complete(csv[2])
    /\ Complete(csv[3]) /\ csv[3] # csv[1]
    /\ Len(spacex_df) = 2

\* C10 as stated: every record of a loaded table has a non-negative payload,
\* and so has the slider's lower bound.
C10_Original ==
    Loaded =>
        /\ \A i \in Rows : spacex_df[i].payload >= 0
        /\ (pc \in {"serving", "running"} /\ spacex_df # <<>>) => payload_min >= 0

\* C10, amended: loading neither checks nor changes a payload, so when every
\* source row that survives cleanup has a non-negative payload, every record
\* of the table has one and so has the slider's lower bound.
C10_NonNegativeKept ==
    (Loaded /\ \A i \in Survivors : csv[i].payload >= 0) =>
        /\ \A i \in Rows : spacex_df[i].payload >= 0
        /\ (pc \in {"serving", "running"} /\ spacex_df # <<>>) =>
              /\ payload_min >= 0
              /\ payload_slider[1] >= 0

C10_Witness ==
    /\ Running
    /\ spacex_df # <<>>
    /\ \A i \in Survivors : csv[i].payload >= 0
    /\ \E i \in DOMAIN csv : i \notin Survivors /\ csv[i].payload # NaN /\ csv[i].payload < 0
    /\ payload_min >= 0

====
